---- MODULE Spec2Model ----
(***************************************************************************)
(* Queen's Country Explorer API (src/main.py, src/db.py, src/utils.py).    *)
(*                                                                         *)
(* The model covers the external country lookup (fetch_country_from_api),  *)
(* the two lookup endpoints (search, compare) and the favourites CRUD      *)
(* handlers over the document collection and the media host.  Python's     *)
(* None is the string "None"; optional JSON fields of the upstream reply   *)
(* carry a tag ("absent", "null" or the JSON type) beside their value.     *)
(***************************************************************************)
EXTENDS Integers, Sequences, FiniteSets, TLC

VARIABLES
    favourites_collection,  \* db.py: the documents of the "favourites" collection
    media,                  \* public ids of the assets that exist at the media host
    nextId,                 \* number of ObjectIds the store has generated so far
    nextAsset,              \* number of assets the media host has accepted so far
    req,                    \* per request slot: the handler's position and locals
    lookup,                 \* the last search / compare call and its outcome
    history                 \* the 201 / 200 responses to save, update and delete

vars == <<favourites_collection, media, nextId, nextAsset, req, lookup, history>>

None == "None"

(***************************************************************************)
(* Bounds of the model.                                                    *)
(***************************************************************************)
MaxPop == 1        \* populations the upstream reports: 0..MaxPop
MaxIds == 2        \* ObjectIds the store may generate in one run
MaxAssets == 2     \* uploads the media host may accept in one run
OidLen == 2        \* hex digits of an ObjectId string (24 in bson)
OidBase == 9       \* the first generated ObjectId is OidBase + 1

Abs(x) == IF x < 0 THEN -x ELSE x

(***************************************************************************)
(* The upstream country API: the shape of a reply to                       *)
(*   GET /v3.1/name/{name}?fullText=true                                   *)
(***************************************************************************)
CommonNames == {"France", "Ghana", "Macau"}
Pops == 0..MaxPop

\* One element of the JSON array.  x_t is "absent" (no such key), "null"
\* (the key holds JSON null) or the JSON type of the value x_v.

Results ==
    { r \in [name_t : {"absent", "null", "str"}, name_v : CommonNames \cup {None},
             capital_t : {"absent", "null", "list"},
             capital_v : {<<>>, <<"Paris">>, <<"Accra">>, <<"Accra", "Paris">>},
             population_t : {"absent", "null", "int"}, population_v : Pops,
             region_t : {"absent", "null", "str"}, region_v : {"Europe", "Africa", None}] :
        /\ (r.name_t = "str") = (r.name_v # None)
        /\ (r.capital_t # "list") => (r.capital_v = <<>>)
        /\ (r.population_t # "int") => (r.population_v = 0)
        /\ (r.region_t = "str") = (r.region_v # None) }

Region(common) ==
    IF common = "France" THEN "Europe" ELSE IF common = "Ghana" THEN "Africa" ELSE "Asia"
Capital(common) == IF common = "France" THEN "Paris" ELSE "Accra"

WellFormed(common, capt, capv, pop) ==
    [name_t |-> "str", name_v |-> common, capital_t |-> capt, capital_v |-> capv,
     population_t |-> "int", population_v |-> pop,
     region_t |-> "str", region_v |-> Region(common)]

HttpStatuses == {200, 404, 500}

Reply(ok, status, results) ==
    [transport_ok |-> ok, status |-> status, results |-> results]

\* Every reply shape the lookup is exercised with: a transport failure, any
\* status, an empty array, one element of any shape, or that element followed
\* by a second one.
Responses ==
    { Reply(FALSE, 200, <<>>) }
    \cup { Reply(TRUE, s, <<>>) : s \in HttpStatuses }
    \cup { Reply(TRUE, s, <<r>>) : s \in {200, 404}, r \in Results }
    \cup { Reply(TRUE, 200, <<r, WellFormed("Ghana", "list", <<"Accra">>, 1)>>) :
             r \in Results }

(***************************************************************************)
(* src/main.py:80-94  fetch_country_from_api                               *)
(***************************************************************************)
CountryData(name, capital, population, region) ==
    [kind |-> "CountryData", name |-> name, capital |-> capital,
     population |-> population, region |-> region]

\* "return None" of the except clause
NotFound == [kind |-> "None", name |-> None, capital |-> None,
             population |-> 0, region |-> None]

\* an exception the except clause does not list leaves the function
Raised == [kind |-> "raised", name |-> None, capital |-> None,
           population |-> 0, region |-> None]

fetch_country_from_api(resp) ==
    IF ~resp.transport_ok THEN NotFound                 \* requests.get raises
    ELSE IF resp.status >= 400 THEN NotFound            \* raise_for_status
    ELSE IF resp.results = <<>> THEN NotFound           \* [0]: IndexError
    ELSE LET data == resp.results[1] IN
        \* data.get("capital", [None])[0]
        IF data.capital_t = "null" THEN Raised          \* None[0]: TypeError
        ELSE IF data.capital_t = "list" /\ data.capital_v = <<>>
            THEN NotFound                               \* [][0]: IndexError
        ELSE LET capital == IF data.capital_t = "absent" THEN None
                            ELSE data.capital_v[1] IN
            IF data.name_t = "absent" THEN NotFound             \* KeyError
            ELSE IF data.population_t = "absent" THEN NotFound  \* KeyError
            ELSE IF data.region_t = "absent" THEN NotFound      \* KeyError
            \* CountryData(...) validates name: str, population: int, region: str
            ELSE IF \/ data.name_t = "null"
                    \/ data.population_t = "null"
                    \/ data.region_t = "null" THEN Raised       \* ValidationError
            ELSE CountryData(data.name_v, capital, data.population_v, data.region_v)

(***************************************************************************)
(* What the upstream answers to a request name.  The lookup is by exact    *)
(* full text but ignores letter case, and the reply carries the country's  *)
(* common name in its canonical spelling.  A country's population changes  *)
(* over time; a country without a capital is listed with no "capital" key  *)
(* or with an empty list.  The service can be unreachable.                 *)
(***************************************************************************)
ReqNames == {"France", "france", "Ghana", "Macau", "atlantis"}

KnownName(name) == name \in {"France", "france", "Ghana", "Macau"}
Common(name) == IF name \in {"France", "france"} THEN "France" ELSE name

CapitalShapes(common) ==
    IF common = "Macau" THEN { <<"absent", <<>>>>, <<"list", <<>>>> }
    ELSE { <<"list", <<Capital(common)>>>> }

Upstream(name) ==
    { Reply(FALSE, 200, <<>>) }
    \cup (IF KnownName(name)
          THEN { Reply(TRUE, 200, <<WellFormed(Common(name), ct[1], ct[2], p)>>) :
                   ct \in CapitalShapes(Common(name)), p \in Pops }
          ELSE { Reply(TRUE, 404, <<>>), Reply(TRUE, 200, <<>>) })

(***************************************************************************)
(* src/main.py:110-117 search_country_info, 125-153 compare_countries.     *)
(* An exception that leaves a handler is answered with status 500.         *)
(***************************************************************************)
NoMessage == [name |-> None, by |-> 0]

LookupResult(status, detail, data1, data2, difference, message) ==
    [status |-> status, detail |-> detail, country1 |-> data1, country2 |-> data2,
     population_difference |-> difference, message |-> message]

search_country_info(name, resp) ==
    LET country_data == fetch_country_from_api(resp) IN
    IF country_data.kind = "raised"
        THEN LookupResult(500, None, NotFound, NotFound, 0, NoMessage)
    ELSE IF country_data.kind = "None"
        THEN LookupResult(404, name, NotFound, NotFound, 0, NoMessage)
    ELSE LookupResult(200, None, country_data, NotFound, 0, NoMessage)

compare_countries(country1, country2, resp1, resp2) ==
    LET data1 == fetch_country_from_api(resp1) IN
    IF data1.kind = "raised"
        THEN LookupResult(500, None, NotFound, NotFound, 0, NoMessage)
    ELSE IF data1.kind = "None"
        THEN LookupResult(404, country1, NotFound, NotFound, 0, NoMessage)
    ELSE LET data2 == fetch_country_from_api(resp2) IN
        IF data2.kind = "raised"
            THEN LookupResult(500, None, NotFound, NotFound, 0, NoMessage)
        ELSE IF data2.kind = "None"
            THEN LookupResult(404, country2, NotFound, NotFound, 0, NoMessage)
        ELSE LET difference == Abs(data1.population - data2.population)
                 message == IF data1.population > data2.population
                            THEN [name |-> data1.name, by |-> difference]
                            ELSE [name |-> data2.name, by |-> difference]
             IN LookupResult(200, None, data1, data2, difference, message)

NoReply == Reply(FALSE, 200, <<>>)

LookupInit ==
    lookup = [op |-> "none", country1 |-> None, country2 |-> None,
              resp1 |-> NoReply, resp2 |-> NoReply,
              out |-> LookupResult(0, None, NotFound, NotFound, 0, NoMessage)]

SearchCall(name, resp) ==
    /\ lookup.op = "none"
    /\ lookup' = [op |-> "search", country1 |-> name, country2 |-> None,
                  resp1 |-> resp, resp2 |-> NoReply,
                  out |-> search_country_info(name, resp)]
    /\ UNCHANGED <<favourites_collection, media, nextId, nextAsset, req, history>>

CompareCall(country1, country2, resp1, resp2) ==
    /\ lookup.op = "none"
    /\ lookup' = [op |-> "compare", country1 |-> country1, country2 |-> country2,
                  resp1 |-> resp1, resp2 |-> resp2,
                  out |-> compare_countries(country1, country2, resp1, resp2)]
    /\ UNCHANGED <<favourites_collection, media, nextId, nextAsset, req, history>>

(***************************************************************************)
(* bson.ObjectId and its string form.  An ObjectId is a sequence of        *)
(* OidLen hex digits' values; str() writes it in lower-case hex;           *)
(* ObjectId.is_valid / ObjectId() accept either letter case.               *)
(* A string is a sequence of one-character strings.                        *)
(***************************************************************************)
HexLower == <<"0", "1", "2", "3", "4", "5", "6", "7", "8", "9",
              "a", "b", "c", "d", "e", "f">>
HexUpper == <<"0", "1", "2", "3", "4", "5", "6", "7", "8", "9",
              "A", "B", "C", "D", "E", "F">>

HexValue(c) == CHOOSE v \in 0..15 : HexLower[v + 1] = c \/ HexUpper[v + 1] = c

IsHexChar(c) == \E v \in 0..15 : HexLower[v + 1] = c \/ HexUpper[v + 1] = c

\* src/main.py:217  ObjectId.is_valid(favorite_id)
ObjectIdIsValid(s) == Len(s) = OidLen /\ \A i \in 1..Len(s) : IsHexChar(s[i])

\* src/main.py:221  ObjectId(favorite_id)
ObjectId(s) == [i \in 1..Len(s) |-> HexValue(s[i])]

\* src/utils.py:3  str(ObjectId)
Str(oid) == [i \in 1..Len(oid) |-> HexLower[oid[i] + 1]]

RECURSIVE Pow16(_)
Pow16(n) == IF n = 0 THEN 1 ELSE 16 * Pow16(n - 1)

\* the k-th identifier the store generates (insert_one)
GenOid(k) == [i \in 1..OidLen |-> ((OidBase + k) \div Pow16(OidLen - i)) % 16]

Upper(s) == [i \in 1..Len(s) |-> HexUpper[HexValue(s[i]) + 1]]

\* favorite_id path parameters the handlers are called with: the string of
\* every identifier the store can generate, its upper-case spelling, and
\* two malformed strings (a non-hex character, a short string)
IdInputs ==
    { Str(GenOid(k)) : k \in 1..MaxIds }
    \cup { Upper(Str(GenOid(k))) : k \in 1..MaxIds }
    \cup { [i \in 1..OidLen |-> "z"], <<"0">> }

(***************************************************************************)
(* Documents of the collection (SavedCountry, src/main.py:56-70) and the   *)
(* media host's upload result.                                             *)
(***************************************************************************)
PublicId(k) == "img" \o ToString(k)
SecureUrl(public_id) == "https://" \o public_id

NoUpload == [secure_url |-> None, public_id |-> None]

Doc(oid, country_data, user_notes, image_url, image_public_id, date_saved) ==
    [_id |-> oid, name |-> country_data.name, capital |-> country_data.capital,
     population |-> country_data.population, region |-> country_data.region,
     user_notes |-> user_notes, image_url |-> image_url,
     image_public_id |-> image_public_id, date_saved |-> date_saved]

NoDoc == Doc(<<>>, NotFound, None, None, None, 0)

\* src/utils.py:1-4: "_id" (an ObjectId) becomes "id" (its string)
replace_mongo_id(document) ==
    [id |-> IF document = NoDoc THEN <<>> ELSE Str(document._id),
     name |-> document.name, capital |-> document.capital,
     population |-> document.population, region |-> document.region,
     user_notes |-> document.user_notes, image_url |-> document.image_url,
     image_public_id |-> document.image_public_id,
     date_saved |-> document.date_saved]

NoData == replace_mongo_id(NoDoc)

\* find_one called without its filter: any document matches
FindOneAny(oid) ==
    IF favourites_collection # {}
    THEN CHOOSE d \in favourites_collection : TRUE
    ELSE NoDoc

\* favourites_collection.find_one(filter)
FindOneByName(name) ==
    IF \E d \in favourites_collection : d.name = name
    THEN CHOOSE d \in favourites_collection : d.name = name
    ELSE NoDoc

FindOneById(oid) ==
    IF \E d \in favourites_collection : d._id = oid
    THEN CHOOSE d \in favourites_collection : d._id = oid
    ELSE NoDoc

(***************************************************************************)
(* Requests.  A slot holds one request: the handler's arguments, its       *)
(* position (pc), its local variables and, once answered, the response.    *)
(* pre_favs / pre_media record the collection and the media host as they   *)
(* were when the request arrived, while the request is being handled.      *)
(***************************************************************************)
Slots == {"r1", "r2"}

\* form fields the handlers are called with
SaveNames == {"France", "france", "atlantis"}
SaveNotes == {None, "n1"}
UpdateNotes == {None, "n2"}

Idle ==
    [op |-> "idle", pc |-> "idle",
     name |-> None, user_notes |-> None, favorite_picture |-> FALSE,
     favorite_id |-> <<>>,
     country_data |-> NotFound, existing |-> NoDoc, upload_result |-> NoUpload,
     inserted_id |-> <<>>,
     status |-> 0, data |-> NoData,
     pre_favs |-> {}, pre_media |-> {}]

InFlight(s) == req[s].pc \notin {"idle", "done"}
Quiescent == \A s \in Slots : ~InFlight(s)

\* the request as the handler receives it
Arrived(op, name, user_notes, favorite_picture, favorite_id) ==
    [Idle EXCEPT !.op = op, !.pc = "arrived",
                 !.name = name, !.user_notes = user_notes,
                 !.favorite_picture = favorite_picture,
                 !.favorite_id = favorite_id,
                 !.pre_favs = favourites_collection, !.pre_media = media]

\* the handler returns or raises: the response is sent and the locals die
Answered(r, status, data) ==
    [r EXCEPT !.pc = "done", !.status = status, !.data = data,
              !.existing = NoDoc, !.upload_result = NoUpload,
              !.inserted_id = <<>>, !.pre_favs = {}, !.pre_media = {}]

Respond(s, status, data) == req' = [req EXCEPT ![s] = Answered(req[s], status, data)]

Goto(s, pc) == req' = [req EXCEPT ![s].pc = pc]

\* What the clients have been told: for a save, the request's form fields,
\* the identifier string in the response and the upstream data it was built
\* from; for an update or a delete, the identifier of the record only.
Sent(r, id) ==
    IF r.op = "save"
    THEN [op |-> r.op, id |-> id, name |-> r.name, user_notes |-> r.user_notes,
          favorite_picture |-> r.favorite_picture, country_data |-> r.country_data]
    ELSE [op |-> r.op, id |-> id, name |-> None, user_notes |-> None,
          favorite_picture |-> FALSE, country_data |-> NotFound]

SavesInFlight == Cardinality({s \in Slots : InFlight(s) /\ req[s].op = "save"})
UploadsInFlight ==
    Cardinality({s \in Slots : InFlight(s) /\ req[s].favorite_picture})

\* The counters' bounds are enforced when a request is admitted, so that an
\* admitted request can always run to its end.
Admit(s, op, favorite_picture) ==
    /\ req[s].pc = "idle"
    /\ op = "save" => nextId + SavesInFlight < MaxIds
    /\ favorite_picture => nextAsset + UploadsInFlight < MaxAssets

(***************************************************************************)
(* The media host (cloudinary.uploader).  A call either raises, changing   *)
(* nothing, or succeeds.                                                   *)
(***************************************************************************)
UploadResult(k) == [secure_url |-> SecureUrl(PublicId(k)), public_id |-> PublicId(k)]

(***************************************************************************)
(* src/main.py:162-197  save_favorite_country                              *)
(***************************************************************************)
\* save_favorite_country without its duplicate check
SaveFind_NoCheck(s, name, user_notes, favorite_picture) ==
    /\ Admit(s, "save", favorite_picture)
    /\ req' = [req EXCEPT ![s] =
                 [Arrived("save", name, user_notes, favorite_picture, <<>>)
                    EXCEPT !.pc = "save_fetch"]]
    /\ UNCHANGED <<favourites_collection, media, nextId, nextAsset, lookup, history>>

\* 167-171: the duplicate check looks the request's name up
SaveFind(s, name, user_notes, favorite_picture) ==
    /\ Admit(s, "save", favorite_picture)
    /\ LET r == Arrived("save", name, user_notes, favorite_picture, <<>>) IN
       req' = [req EXCEPT ![s] =
                 IF FindOneByName(name) # NoDoc
                 THEN Answered(r, 409, NoData)
                 ELSE [r EXCEPT !.pc = "save_fetch"]]
    /\ UNCHANGED <<favourites_collection, media, nextId, nextAsset, lookup, history>>

\* 172-177
SaveFetch(s) ==
    /\ req[s].pc = "save_fetch"
    /\ \E resp \in Upstream(req[s].name) :
         LET country_data == fetch_country_from_api(resp) IN
         IF country_data.kind = "raised" THEN Respond(s, 500, NoData)
         ELSE IF country_data.kind = "None" THEN Respond(s, 404, NoData)
         ELSE req' = [req EXCEPT ![s].country_data = country_data,
                                 ![s].pc = IF req[s].favorite_picture
                                           THEN "save_upload" ELSE "save_insert"]
    /\ UNCHANGED <<favourites_collection, media, nextId, nextAsset, lookup, history>>

\* 181-184
SaveUpload(s) ==
    /\ req[s].pc = "save_upload"
    /\ \/ /\ Respond(s, 500, NoData)             \* cloudinary.uploader.upload raises
          /\ UNCHANGED <<media, nextAsset>>
       \/ /\ nextAsset' = nextAsset + 1
          /\ media' = media \cup {PublicId(nextAsset')}
          /\ req' = [req EXCEPT ![s].upload_result = UploadResult(nextAsset'),
                                ![s].pc = "save_insert"]
    /\ UNCHANGED <<favourites_collection, nextId, lookup, history>>

\* 186-193: the document that is inserted; date_saved is the logical time
\* of its creation
FavoriteDoc(oid, r, date_saved) ==
    Doc(oid, r.country_data, r.user_notes,
        r.upload_result.secure_url, r.upload_result.public_id, date_saved)

\* 186-195: insert_one; the store generates the identifier
SaveInsert(s) ==
    /\ req[s].pc = "save_insert"
    /\ nextId' = nextId + 1
    /\ favourites_collection' =
         favourites_collection \cup {FavoriteDoc(GenOid(nextId'), req[s], nextId')}
    /\ req' = [req EXCEPT ![s].inserted_id = GenOid(nextId'),
                          ![s].pc = "save_reread"]
    /\ UNCHANGED <<media, nextAsset, lookup, history>>

\* 196-197: find_one by the inserted id, and the response
SaveReread(s) ==
    /\ req[s].pc = "save_reread"
    /\ LET created_favorite == FindOneById(req[s].inserted_id) IN
         /\ Respond(s, 201, replace_mongo_id(created_favorite))
         /\ history' = history \cup {Sent(req[s], replace_mongo_id(created_favorite).id)}
    /\ UNCHANGED <<favourites_collection, media, nextId, nextAsset, lookup>>

(***************************************************************************)
(* src/main.py:216-224  get_favorite_by_id                                 *)
(***************************************************************************)
GetFind(s, favorite_id) ==
    /\ Admit(s, "get", FALSE)
    /\ LET r == Arrived("get", None, None, FALSE, favorite_id) IN
       req' = [req EXCEPT ![s] =
                 IF ~ObjectIdIsValid(favorite_id) THEN Answered(r, 422, NoData)
                 ELSE LET favorite == FindOneById(ObjectId(favorite_id)) IN
                      IF favorite = NoDoc THEN Answered(r, 404, NoData)
                      ELSE Answered(r, 200, replace_mongo_id(favorite))]
    /\ UNCHANGED <<favourites_collection, media, nextId, nextAsset, lookup, history>>

(***************************************************************************)
(* src/main.py:231-264  update_favorite_country                            *)
(***************************************************************************)
\* 236-248, 258-259: with no picture, update_fields is empty exactly when
\* user_notes is None
UpdateFind(s, favorite_id, user_notes, favorite_picture) ==
    /\ Admit(s, "update", favorite_picture)
    /\ LET r == Arrived("update", None, user_notes, favorite_picture, favorite_id) IN
       req' = [req EXCEPT ![s] =
                 IF ~ObjectIdIsValid(favorite_id) THEN Answered(r, 422, NoData)
                 ELSE LET existing_favorite == FindOneById(ObjectId(favorite_id)) IN
                      IF existing_favorite = NoDoc THEN Answered(r, 404, NoData)
                      ELSE IF favorite_picture
                          THEN [r EXCEPT !.existing = existing_favorite,
                                         !.pc = IF existing_favorite.image_public_id # None
                                                THEN "update_destroy"
                                                ELSE "update_upload"]
                      ELSE IF user_notes = None THEN Answered(r, 400, NoData)
                      ELSE [r EXCEPT !.existing = existing_favorite,
                                     !.pc = "update_write"]]
    /\ UNCHANGED <<favourites_collection, media, nextId, nextAsset, lookup, history>>

\* 251-252
UpdateDestroy(s) ==
    /\ req[s].pc = "update_destroy"
    /\ \/ /\ Respond(s, 500, NoData)            \* cloudinary.uploader.destroy raises
          /\ UNCHANGED media
       \/ /\ media' = media \ {req[s].existing.image_public_id}
          /\ Goto(s, "update_upload")
    /\ UNCHANGED <<favourites_collection, nextId, nextAsset, lookup, history>>

\* 254-256
UpdateUpload(s) ==
    /\ req[s].pc = "update_upload"
    /\ \/ /\ Respond(s, 500, NoData)            \* cloudinary.uploader.upload raises
          /\ UNCHANGED <<media, nextAsset>>
       \/ /\ nextAsset' = nextAsset + 1
          /\ media' = media \cup {PublicId(nextAsset')}
          /\ req' = [req EXCEPT ![s].upload_result = UploadResult(nextAsset'),
                                ![s].pc = "update_write"]
    /\ UNCHANGED <<favourites_collection, nextId, lookup, history>>

\* update_fields that always carries user_notes, also when it is None
ApplySet_NotesAlways(d, r) ==
    [d EXCEPT !.user_notes = r.user_notes,
              !.image_url = IF r.favorite_picture
                            THEN r.upload_result.secure_url ELSE @,
              !.image_public_id = IF r.favorite_picture
                                  THEN r.upload_result.public_id ELSE @]

\* update_fields that carries image_url without image_public_id
ApplySet_UrlOnly(d, r) ==
    [d EXCEPT !.user_notes = IF r.user_notes # None THEN r.user_notes ELSE @,
              !.image_url = IF r.favorite_picture
                            THEN r.upload_result.secure_url ELSE @]

\* 246-256, 262: {"$set": update_fields} applied to one document
ApplySet(d, r) ==
    [d EXCEPT !.user_notes = IF r.user_notes # None THEN r.user_notes ELSE @,
              !.image_url = IF r.favorite_picture
                            THEN r.upload_result.secure_url ELSE @,
              !.image_public_id = IF r.favorite_picture
                                  THEN r.upload_result.public_id ELSE @]

\* 261-264: update_one matches by _id; its result is not looked at
UpdateWrite(s) ==
    /\ req[s].pc = "update_write"
    /\ favourites_collection' =
         { IF d._id = ObjectId(req[s].favorite_id) THEN ApplySet(d, req[s]) ELSE d :
             d \in favourites_collection }
    /\ Respond(s, 200, NoData)
    /\ history' = history \cup {Sent(req[s], Str(ObjectId(req[s].favorite_id)))}
    /\ UNCHANGED <<media, nextId, nextAsset, lookup>>

(***************************************************************************)
(* src/main.py:271-292  delete_favorite                                    *)
(***************************************************************************)
\* 272-283
DeleteFind(s, favorite_id) ==
    /\ Admit(s, "delete", FALSE)
    /\ LET r == Arrived("delete", None, None, FALSE, favorite_id) IN
       req' = [req EXCEPT ![s] =
                 IF ~ObjectIdIsValid(favorite_id) THEN Answered(r, 422, NoData)
                 ELSE LET favorite_to_delete == FindOneById(ObjectId(favorite_id)) IN
                      IF favorite_to_delete = NoDoc THEN Answered(r, 404, NoData)
                      ELSE [r EXCEPT !.existing = favorite_to_delete,
                                     !.pc = IF favorite_to_delete.image_public_id # None
                                            THEN "delete_destroy"
                                            ELSE "delete_write"]]
    /\ UNCHANGED <<favourites_collection, media, nextId, nextAsset, lookup, history>>

\* 283-284
DeleteDestroy(s) ==
    /\ req[s].pc = "delete_destroy"
    /\ \/ /\ Respond(s, 500, NoData)            \* cloudinary.uploader.destroy raises
          /\ UNCHANGED media
       \/ /\ media' = media \ {req[s].existing.image_public_id}
          /\ Goto(s, "delete_write")
    /\ UNCHANGED <<favourites_collection, nextId, nextAsset, lookup, history>>

\* a delete filtered by the record's name instead of its _id
DeleteWrite_ByName(s) ==
    /\ req[s].pc = "delete_write"
    /\ LET name == req[s].existing.name
           deleted_count == Cardinality({d \in favourites_collection : d.name = name})
       IN /\ favourites_collection' = {d \in favourites_collection : d.name # name}
          /\ IF deleted_count = 0
             THEN Respond(s, 404, NoData) /\ UNCHANGED history
             ELSE /\ Respond(s, 200, NoData)
                  /\ history' = history
                        \cup {Sent(req[s], Str(ObjectId(req[s].favorite_id)))}
    /\ UNCHANGED <<media, nextId, nextAsset, lookup>>

\* 286-292: delete_one and its deleted_count
DeleteWrite(s) ==
    /\ req[s].pc = "delete_write"
    /\ LET oid == ObjectId(req[s].favorite_id)
           deleted_count == Cardinality({d \in favourites_collection : d._id = oid})
       IN /\ favourites_collection' = {d \in favourites_collection : d._id # oid}
          /\ IF deleted_count = 0
             THEN Respond(s, 404, NoData) /\ UNCHANGED history
             ELSE /\ Respond(s, 200, NoData)
                  /\ history' = history \cup {Sent(req[s], Str(oid))}
    /\ UNCHANGED <<media, nextId, nextAsset, lookup>>

(***************************************************************************)
(* Specifications.                                                         *)
(***************************************************************************)
Init ==
    /\ favourites_collection = {}
    /\ media = {}
    /\ nextId = 0
    /\ nextAsset = 0
    /\ req = [s \in Slots |-> Idle]
    /\ history = {}
    /\ LookupInit

\* a request arrives at slot s and its handler runs up to its first wait
Call(s) ==
    \/ \E name \in SaveNames, user_notes \in SaveNotes, favorite_picture \in BOOLEAN :
         SaveFind(s, name, user_notes, favorite_picture)
    \/ \E favorite_id \in IdInputs : GetFind(s, favorite_id)
    \/ \E favorite_id \in IdInputs, user_notes \in UpdateNotes,
          favorite_picture \in BOOLEAN :
         UpdateFind(s, favorite_id, user_notes, favorite_picture)
    \/ \E favorite_id \in IdInputs : DeleteFind(s, favorite_id)

\* a handler that is waiting on the upstream, the media host or the store
\* goes on
Step(s) ==
    \/ SaveFetch(s) \/ SaveUpload(s) \/ SaveInsert(s) \/ SaveReread(s)
    \/ UpdateDestroy(s) \/ UpdateUpload(s) \/ UpdateWrite(s)
    \/ DeleteDestroy(s) \/ DeleteWrite(s)

\* the response has reached the client; the slot is free for the next request
Close(s) ==
    /\ req[s].pc = "done"
    /\ req' = [req EXCEPT ![s] = Idle]
    /\ UNCHANGED <<favourites_collection, media, nextId, nextAsset, lookup, history>>

\* one worker: every handler runs to completion before the next request starts
Worker == "r1"

Next == Call(Worker) \/ Step(Worker) \/ Close(Worker)

Spec == Init /\ [][Next]_vars

\* requests are served concurrently; their steps interleave
NextRace == \E s \in Slots : Call(s) \/ Step(s) \/ Close(s)

SpecRace == Init /\ [][NextRace]_vars

\* the lookup endpoints, which touch only the upstream
NextLookup ==
    \/ \E name \in ReqNames, resp \in Responses : SearchCall(name, resp)
    \/ \E country1 \in ReqNames, country2 \in ReqNames :
         \E resp1 \in Upstream(country1), resp2 \in Upstream(country2) :
           CompareCall(country1, country2, resp1, resp2)

SpecLookup == Init /\ [][NextLookup]_vars

(***************************************************************************)
(* Properties of the lookup endpoints (checked under SpecLookup).          *)
(***************************************************************************)
\* The replies the specification classes as "not found": a transport error,
\* a non-success status, an empty result set, or a first result that lacks
\* name.common, population or region.
UpstreamNotFound(resp) ==
    \/ ~resp.transport_ok
    \/ resp.status # 200
    \/ resp.results = <<>>
    \/ resp.results[1].name_t = "absent"
    \/ resp.results[1].population_t = "absent"
    \/ resp.results[1].region_t = "absent"

KnownUpstream(resp) == ~UpstreamNotFound(resp)

\* the first listed capital, or absent when the result lists none
FirstCapital(data) ==
    IF data.capital_t = "list" /\ data.capital_v # <<>> THEN data.capital_v[1] ELSE None

\* C8: fetch(name) returns NotFound for every transport error, non-success
\* status, empty result set or first result missing name.common, population
\* or region; for every other reply it returns the record built from the
\* first result, its capital the first listed one or absent when the result
\* lists none (no capital key, or an empty list); it never raises.
C8_FetchOutcome ==
    lookup.op = "search" =>
        LET resp == lookup.resp1
            out == lookup.out
        IN IF UpstreamNotFound(resp)
           THEN out.status = 404
           ELSE /\ out.status = 200
                /\ out.country1.kind = "CountryData"
                /\ out.country1.name = resp.results[1].name_v
                /\ out.country1.capital = FirstCapital(resp.results[1])
                /\ out.country1.population = resp.results[1].population_v
                /\ out.country1.region = resp.results[1].region_v

\* C7: compare(a, b): when a and b are both known upstream the result holds
\* population_difference = |pop(a) - pop(b)| and, when the populations
\* differ, a message naming the country with the strictly greater
\* population; when a or b is not found upstream the result is 404 (for a
\* first, then b) and no comparison is returned.
C7_Compare ==
    lookup.op = "compare" =>
        LET r1 == lookup.resp1
            r2 == lookup.resp2
            out == lookup.out
        IN /\ (KnownUpstream(r1) /\ KnownUpstream(r2)) =>
                LET d1 == r1.results[1]
                    d2 == r2.results[1]
                IN /\ out.status = 200
                   /\ out.population_difference
                        = Abs(d1.population_v - d2.population_v)
                   /\ (d1.population_v > d2.population_v
                         => out.message.name = d1.name_v)
                   /\ (d2.population_v > d1.population_v
                         => out.message.name = d2.name_v)
           /\ (UpstreamNotFound(r1) \/ UpstreamNotFound(r2)) =>
                /\ out.status = 404
                /\ out.detail = IF UpstreamNotFound(r1)
                                THEN lookup.country1 ELSE lookup.country2
                /\ out.country1 = NotFound /\ out.country2 = NotFound

\* What compare_countries does guarantee: whenever both lookups return a
\* record the difference and the named country are as C7 states, and a
\* lookup that returns None is answered 404, the first country first.
CompareOnFetched ==
    lookup.op = "compare" =>
        LET f1 == fetch_country_from_api(lookup.resp1)
            f2 == fetch_country_from_api(lookup.resp2)
            out == lookup.out
        IN /\ (f1.kind = "CountryData" /\ f2.kind = "CountryData") =>
                /\ out.status = 200
                /\ out.population_difference = Abs(f1.population - f2.population)
                /\ (f1.population > f2.population => out.message.name = f1.name)
                /\ (f2.population > f1.population => out.message.name = f2.name)
           /\ f1.kind = "None" => out.status = 404 /\ out.detail = lookup.country1
           /\ (f1.kind = "CountryData" /\ f2.kind = "None") =>
                out.status = 404 /\ out.detail = lookup.country2

(***************************************************************************)
(* Properties of the favourites handlers (checked under Spec, where one    *)
(* worker runs every handler to completion before the next one starts).    *)
(***************************************************************************)
SameName(d1, d2) == d1.name = d2.name

\* C1: no two stored favourites have the same stored name, in every state
\* reachable by save, update and delete requests handled one at a time.
C1_UniqueNames ==
    \A d1 \in favourites_collection, d2 \in favourites_collection :
        SameName(d1, d2) => d1 = d2

DuplicateStored ==
    \E d1 \in favourites_collection, d2 \in favourites_collection :
        d1 # d2 /\ SameName(d1, d2)

\* C9 (second half): with the check and the insert of each save executed
\* atomically, no state is reachable in which two save requests for the same
\* name both returned 201 and the store holds two favourites of one name.
C9_AtomicNoDuplicate ==
    ~ (/\ \E e1 \in history, e2 \in history :
             /\ e1.op = "save" /\ e2.op = "save"
             /\ e1 # e2 /\ e1.name = e2.name
       /\ DuplicateStored)

\* C9 (first half), for request names spelled as the upstream spells them:
\* two saves of one name both answered 201, and two favourites of that name.
\* Unreachable under Spec, reachable under SpecRace.
RaceDuplicate ==
    /\ \E e1 \in history, e2 \in history :
          /\ e1.op = "save" /\ e2.op = "save"
          /\ e1 # e2 /\ e1.name = e2.name
          /\ e1.name = e1.country_data.name /\ e2.name = e2.country_data.name
    /\ DuplicateStored

NoRaceDuplicate == ~RaceDuplicate

\* C10: whenever no request is in flight, every image_public_id a stored
\* favourite holds names an asset that exists at the media host, and every
\* asset at the media host is referenced by exactly one stored favourite.
C10_ReferenceIntegrity ==
    Quiescent =>
        /\ \A d \in favourites_collection :
              d.image_public_id # None => d.image_public_id \in media
        /\ \A a \in media :
              Cardinality({d \in favourites_collection : d.image_public_id = a}) = 1

\* C10 ("in particular"): an update whose record a concurrent delete removed
\* between its existence check and its write leaves no asset behind and does
\* not report success.  Reachable under SpecRace: the update is answered 200,
\* the record is gone, and the asset it uploaded is referenced by nothing.
LostUpdateOrphan ==
    \E s \in Slots :
        /\ req[s].pc = "done" /\ req[s].op = "update" /\ req[s].status = 200
        /\ favourites_collection = {}
        /\ media # {}

NoLostUpdateOrphan == ~LostUpdateOrphan

(***************************************************************************)
(* Steps that answer a request, and the state the request found.           *)
(***************************************************************************)
Completes(s, op) == req[s].pc # "done" /\ req'[s].pc = "done" /\ req'[s].op = op

\* the collection / the media host as they were when the request arrived
PreFavs(s) == IF req[s].pc = "idle" THEN favourites_collection ELSE req[s].pre_favs
PreMedia(s) == IF req[s].pc = "idle" THEN media ELSE req[s].pre_media

Stored(favs, oid) == \E d \in favs : d._id = oid

\* C2: a save whose name is already stored is answered 409 (also when the
\* name is unknown upstream), a save of a name not stored and unknown
\* upstream is answered 404, and a save answered 409 or 404 leaves the
\* collection and the media host as the request found them.
RejectedSave(s) ==
    Completes(s, "save") =>
        LET r == req'[s]
            duplicate == \E d \in PreFavs(s) : d.name = r.name
        IN /\ duplicate => r.status = 409
           /\ (~duplicate /\ ~KnownName(r.name)) => r.status = 404
           /\ r.status \in {404, 409} =>
                /\ favourites_collection' = PreFavs(s)
                /\ media' = PreMedia(s)

C2_RejectedSave == [][\A s \in Slots : RejectedSave(s)]_vars

C2_Witness ==
    /\ req[Worker].pc = "done" /\ req[Worker].op = "save"
    /\ req[Worker].status = 409 /\ req[Worker].favorite_picture
    /\ \E d \in favourites_collection :
          d.name = req[Worker].name /\ d.image_public_id # None

\* C3: get_by_id with the identifier string a successful save returned
\* answers a record whose identifier is that same string and whose name,
\* population and region are those the upstream gave at save time; as long
\* as the record was neither updated nor deleted the answer is 200 and
\* user_notes and the image fields are absent when none were supplied.
GetAfterSave(s) ==
    Completes(s, "get") =>
        LET r == req'[s] IN
        \A e \in history :
            (e.op = "save" /\ e.id = r.favorite_id) =>
                LET touched == \E u \in history :
                                  u.op \in {"update", "delete"} /\ u.id = e.id
                IN /\ r.status = 200 =>
                        /\ r.data.id = r.favorite_id
                        /\ r.data.name = e.country_data.name
                        /\ r.data.population = e.country_data.population
                        /\ r.data.region = e.country_data.region
                   /\ ~touched =>
                        /\ r.status = 200
                        /\ r.data.user_notes = e.user_notes
                        /\ ~e.favorite_picture =>
                             /\ r.data.image_url = None
                             /\ r.data.image_public_id = None

C3_GetAfterSave == [][\A s \in Slots : GetAfterSave(s)]_vars

C3_Witness ==
    /\ req[Worker].pc = "done" /\ req[Worker].op = "get" /\ req[Worker].status = 200
    /\ Cardinality(favourites_collection) = 2
    /\ \E e \in history :
          /\ e.op = "save" /\ e.id = req[Worker].favorite_id
          /\ e.user_notes = None /\ ~e.favorite_picture
          /\ e.name # e.country_data.name
          /\ e.country_data.population = 1
          /\ ~ \E u \in history : u.op \in {"update", "delete"} /\ u.id = e.id

\* C4: an update of an existing favourite with neither user_notes nor an
\* image is answered 400 and changes neither the collection nor the media
\* host; an update answered 200 changes, in the one record it names, only
\* the fields supplied (user_notes; image_url with image_public_id), and no
\* other record; any other answer leaves the collection unchanged; and no
\* step changes the date_saved of a record.
UpdateFrame(s) ==
    Completes(s, "update") =>
        LET r == req'[s]
            pre == PreFavs(s)
            valid == ObjectIdIsValid(r.favorite_id)
            oid == ObjectId(r.favorite_id)
        IN /\ (valid /\ Stored(pre, oid) /\ r.user_notes = None /\ ~r.favorite_picture) =>
                /\ r.status = 400
                /\ favourites_collection' = pre
                /\ media' = PreMedia(s)
           /\ r.status # 200 => favourites_collection' = pre
           /\ r.status = 200 =>
                /\ valid /\ Stored(pre, oid)
                /\ Cardinality(favourites_collection') = Cardinality(pre)
                /\ \A d \in pre :
                      \E n \in favourites_collection' :
                          /\ n._id = d._id
                          /\ d._id # oid => n = d
                          /\ d._id = oid =>
                               /\ n.name = d.name /\ n.capital = d.capital
                               /\ n.population = d.population /\ n.region = d.region
                               /\ n.date_saved = d.date_saved
                               /\ n.user_notes = IF r.user_notes = None
                                                 THEN d.user_notes ELSE r.user_notes
                               /\ ~r.favorite_picture =>
                                    /\ n.image_url = d.image_url
                                    /\ n.image_public_id = d.image_public_id
                               /\ r.favorite_picture =>
                                    /\ n.image_public_id \notin {None, d.image_public_id}
                                    /\ n.image_url = SecureUrl(n.image_public_id)

DateSavedKept ==
    \A d \in favourites_collection, n \in favourites_collection' :
        n._id = d._id => n.date_saved = d.date_saved

C4_UpdateFrame == [][DateSavedKept /\ \A s \in Slots : UpdateFrame(s)]_vars

C4_Witness ==
    /\ req[Worker].pc = "done" /\ req[Worker].op = "update" /\ req[Worker].status = 200
    /\ req[Worker].user_notes = None /\ req[Worker].favorite_picture
    /\ Cardinality(favourites_collection) = 2
    /\ \E d \in favourites_collection :
          /\ Str(d._id) = Str(ObjectId(req[Worker].favorite_id))
          /\ d.user_notes = "n1" /\ d.image_public_id # None

\* C5: deleting a well-formed id that is not stored is answered 404 and
\* leaves the collection unchanged; a delete answered 200 removes exactly
\* the record it names; afterwards that identifier is never stored again,
\* and every get_by_id of it is answered 404.
DeleteThenGet(s) ==
    /\ Completes(s, "delete") =>
          LET r == req'[s]
              pre == PreFavs(s)
          IN ObjectIdIsValid(r.favorite_id) =>
                LET oid == ObjectId(r.favorite_id) IN
                /\ ~Stored(pre, oid) =>
                      r.status = 404 /\ favourites_collection' = pre
                /\ r.status = 200 =>
                      /\ Stored(pre, oid)
                      /\ favourites_collection' = {d \in pre : d._id # oid}
    /\ Completes(s, "get") =>
          LET r == req'[s] IN
          (/\ ObjectIdIsValid(r.favorite_id)
           /\ \E e \in history :
                 e.op = "delete" /\ e.id = Str(ObjectId(r.favorite_id)))
              => r.status = 404

DeletedStayDeleted ==
    \A e \in history :
        e.op = "delete" => ~ \E d \in favourites_collection : Str(d._id) = e.id

C5_DeleteThenGet ==
    [](DeletedStayDeleted) /\ [][\A s \in Slots : DeleteThenGet(s)]_vars

C5_Witness ==
    /\ req[Worker].pc = "done" /\ req[Worker].op = "get" /\ req[Worker].status = 404
    /\ \E e \in history : e.op = "delete" /\ e.id = req[Worker].favorite_id
    /\ favourites_collection # {}
    /\ nextId = MaxIds

\* C6: every stored favourite has image_url and image_public_id either both
\* present or both absent.
C6_ImageFieldsTogether ==
    \A d \in favourites_collection :
        (d.image_url = None) = (d.image_public_id = None)

\* a record with an image, after an update that a media failure aborted
C6_Witness ==
    /\ req[Worker].pc = "done" /\ req[Worker].op = "update" /\ req[Worker].status = 500
    /\ \E d \in favourites_collection : d.image_public_id # None
    /\ \E d \in favourites_collection : d.image_public_id = None

====
